---- MODULE Spec2Model ----
(***************************************************************************)
(* A model of sebseager/slack-exporter: the three programs of the          *)
(* repository (exporterVer2.py, exporter.py, bot.py) as state machines.    *)
(*                                                                         *)
(*   Spec        the fetch pipeline: rate-limited fetcher, cursor          *)
(*               paginator, channel_history / channel_replies, and the     *)
(*               rendering of a fetched history                            *)
(*   SpecFiles   the attachment downloader: get_file_list, save_files,     *)
(*               download_file, run one or more times on one directory     *)
(*   SpecRender  the renderers parse_channel_history and parse_replies on  *)
(*               records with and without each optional field              *)
(*   SpecList    parse_channel_list on any list of channels                *)
(*   SpecServe   bot.py's export file and the download requests for it     *)
(*                                                                         *)
(* Python strings are sequences of tokens: "\n", "\t" and " " are the      *)
(* white-space characters, every other token is a run of characters that   *)
(* holds no white space.                                                   *)
(***************************************************************************)
EXTENDS Integers, Sequences, FiniteSets, TLC

\* ------------------------------------------------------------------ bounds

\* The largest number of records the server puts in one page of a free run.
MaxPageLen == 1
\* The largest number of GET requests of a free run.
MaxRequests == 3
\* The largest number of root timestamps given to channel_replies.
MaxThreads == 2

\* The largest number of files in the listing, and the files in one page of it.
MaxListFiles == 2
MaxPageFiles == 1
\* The largest number of throttling responses to the listing requests of one run.
MaxListThrottles == 1
\* The largest number of records in the input of the renderer.
MaxMsgs == 2
\* The largest number of channels parse_channel_list is given.
MaxChannels == 2
\* The largest number of download requests the webhook service gets for one
\* export file, and of lines in the file.
MaxDownloads == 3
MaxLines == 2
\* The largest number of runs of save_files on one directory.
MaxRuns == 2

\* --------------------------------------------------------------- constants

ADDITIONAL_SLEEP_TIME == 2
\* save_files: while not download_success and attempt <= 10
MaxAttempts == 10

\* ----------------------------------------------------------------- strings

None == [some |-> FALSE, s |-> <<>>]
Some(s) == [some |-> TRUE, s |-> s]

IsSpace(c) == c \in {" ", "\t", "\n"}

RECURSIVE LStrip(_)
LStrip(s) == IF s # <<>> /\ IsSpace(Head(s)) THEN LStrip(Tail(s)) ELSE s

RECURSIVE RStripSpace(_)
RStripSpace(s) ==
    IF s # <<>> /\ IsSpace(s[Len(s)]) THEN RStripSpace(SubSeq(s, 1, Len(s) - 1)) ELSE s

\* str.strip()
Strip(s) == RStripSpace(LStrip(s))

\* n copies of token c
Repeat(c, n) == [i \in 1..n |-> c]

\* str.rstrip("\t")
RECURSIVE RStripTabs(_)
RStripTabs(s) ==
    IF s # <<>> /\ s[Len(s)] = "\t" THEN RStripTabs(SubSeq(s, 1, Len(s) - 1)) ELSE s

\* str.split(sep), sep one character: the pieces between the separators
RECURSIVE Split(_, _)
Split(s, sep) ==
    IF \E i \in DOMAIN s : s[i] = sep
    THEN LET i == CHOOSE k \in DOMAIN s : s[k] = sep /\ \A j \in 1..(k - 1) : s[j] # sep
         IN  <<SubSeq(s, 1, i - 1)>> \o Split(SubSeq(s, i + 1, Len(s)), sep)
    ELSE <<s>>

\* sep.join(parts)
RECURSIVE Join(_, _)
Join(parts, sep) ==
    IF parts = <<>> THEN <<>>
    ELSE IF Len(parts) = 1 THEN parts[1]
    ELSE parts[1] \o sep \o Join(Tail(parts), sep)

\* str.replace(pat, rep): the occurrences of pat, left to right, not overlapping
RECURSIVE Replace(_, _, _)
Replace(s, pat, rep) ==
    IF Len(s) < Len(pat) THEN s
    ELSE IF SubSeq(s, 1, Len(pat)) = pat
    THEN rep \o Replace(SubSeq(s, Len(pat) + 1, Len(s)), pat, rep)
    ELSE <<Head(s)>> \o Replace(Tail(s), pat, rep)



\* ------------------------------------------------------------------- state

VARIABLES
    prog,          \* the program that runs: "exporterVer2", "exporter" or "bot"
    token,         \* whether SLACK_USER_TOKEN is in the environment
    response_url,  \* the announce callback URL, or NoUrl
    op,            \* the accessor the shell runs
    timestamps,    \* channel_replies' argument
    scenario,      \* "free": the server answers anything; "e2e": it follows script
    script,        \* the responses a scripted server still has to give
    pc,            \* where the program is
    params,        \* the query parameters dict of the running paginated_get
    next_cursor,   \* paginated_get's next_cursor
    data,          \* the page get_at_cursor returned
    r,             \* the response get_data returned
    attempt,       \* get_data's attempt counter
    result,        \* paginated_get's accumulator
    replies,       \* channel_replies' accumulator
    ti,            \* channel_replies' position in timestamps
    call,          \* the number of paginated_get calls started
    nextId,        \* the server's position in its records
    log,           \* every request, sleep and diagnostic, in order
    users,         \* the user directory the renderer is given
    threads,       \* parse_replies' argument
    thi,           \* parse_replies' position in threads
    out,           \* the rendered text the export ends with
    msgs,          \* parse_channel_history's argument
    check_thread,  \* parse_channel_history's check_thread
    messages,      \* parse_channel_history's messages
    mi,            \* parse_channel_history's position in messages
    body,          \* parse_channel_history's body
    listing,       \* the server's file listing, which it serves in pages
    fs,            \* the target directory: each path "absent", "partial" or "complete"
    fs0,           \* the target directory when the running save_files started
    run,           \* the number of save_files runs started
    current_page,  \* get_file_list's current_page
    total_pages,   \* get_file_list's total_pages
    pending,       \* the files of the fetched page get_file_list has yet to yield
    yielded,       \* the number of files get_file_list yielded in this run
    destination_path, \* save_files' destination_path
    download_success, \* save_files' download_success
    dl_attempt,    \* save_files' attempt
    total,         \* save_files' total
    outcome,       \* how the last download_file call ended
    dl,            \* the download requests of this run, per path
    dl0,           \* the download requests of the run before, per path
    listLog,       \* the listing requests of this run: <<page, status, ok>>
    channels,      \* parse_channel_list: the channels it is given
    chi,           \* parse_channel_list: the place of its loop in channels
    list_result,   \* parse_channel_list: result, a list of lines
    exports,       \* bot.py: the file names in the exports directory
    content,       \* bot.py: the lines of the export file
    downloads      \* bot.py: the download requests, each with its progress

fetchVars == <<prog, token, response_url, op, timestamps, scenario, script, pc, params,
               next_cursor, data, r, attempt, result, replies, ti, call, nextId, log>>

renderVars == <<users, threads, thi, out, msgs, check_thread, messages, mi, body>>

fetchVars_but_pc == <<prog, token, response_url, op, timestamps, scenario, script, params,
                      next_cursor, data, r, attempt, result, replies, ti, call, nextId, log>>

fileVars == <<listing, fs, fs0, run, current_page, total_pages, pending, yielded,
              destination_path, download_success, dl_attempt, total, outcome, dl, dl0,
              listLog>>

listVars == <<channels, chi, list_result>>
botVars == <<exports, content, downloads>>
otherVars == <<listVars, botVars>>
vars == <<fetchVars, renderVars, fileVars, otherVars>>

\* ------------------------------------------------------------------ server

NoUrl == "None"
Progs == {"exporterVer2", "exporter", "bot"}
\* The ts of the i-th root message, and the lists channel_replies is given.
TsOf(i) == ToString(1700000000 + i)
TsLists == {[i \in 1..n |-> TsOf(i)] : n \in 0..MaxThreads}
RetryAfters == {1, 30}

\* The user directory of the fetch runs.
SampleUsers == << [id |-> "U1", name |-> "alice", profile |-> [real_name |-> "Alice A"]] >>

\* The i-th record of the server's data.
Msg(i) == [type |-> "message", ts |-> 10 * i, text |-> <<"m">>, user |-> "U1"]

\* A decoded page: HTTP status, Retry-After, whether the body is JSON, the body's
\* "ok" field ("true", "false" or "absent"), whether it has the collection field,
\* the collection, and response_metadata.next_cursor (None when absent).
Page(n, cur, first) ==
    [status |-> 200, retry |-> 0, json |-> TRUE, ok |-> "true", coll |-> TRUE,
     items |-> [i \in 1..n |-> Msg(first + i - 1)], cur |-> cur]
Throttled(ra) ==
    [status |-> 429, retry |-> ra, json |-> TRUE, ok |-> "false", coll |-> FALSE,
     items |-> <<>>, cur |-> None]
HttpError(isJson) ==
    [status |-> 500, retry |-> 0, json |-> isJson, ok |-> "false", coll |-> FALSE,
     items |-> <<>>, cur |-> None]
ApiError ==
    [status |-> 200, retry |-> 0, json |-> TRUE, ok |-> "false", coll |-> FALSE,
     items |-> <<>>, cur |-> None]
NoOkField ==
    [status |-> 200, retry |-> 0, json |-> TRUE, ok |-> "absent", coll |-> TRUE,
     items |-> <<>>, cur |-> None]
NoCollection(cur) ==
    [status |-> 200, retry |-> 0, json |-> TRUE, ok |-> "true", coll |-> FALSE,
     items |-> <<>>, cur |-> cur]

Gets == {i \in DOMAIN log : log[i][1] = "GET"}
NumGets == Cardinality(Gets)

\* The opaque cursor of the page served next: one per page.
Tok == Repeat("c", NumGets + 1)
Cursors == {None, Some(<<>>), Some(<<" ", "\t">>), Some(Tok)}

FreeResponses ==
    {Page(n, cur, nextId) : n \in 0..MaxPageLen, cur \in Cursors}
        \cup {Throttled(ra) : ra \in RetryAfters}
        \cup {HttpError(j) : j \in BOOLEAN}
        \cup {ApiError, NoOkField}
        \cup {NoCollection(cur) : cur \in {None, Some(Tok)}}

\* The end-to-end scenario: the first request throttled once, then 250 messages as
\* a page of 200 with a cursor and a page of 50 with none.
E2EScript ==
    << Throttled(1),
       Page(200, Some(<<"c">>), 1),
       Page(50, None, 201) >>

ServerResponses ==
    IF scenario = "e2e" THEN (IF script # <<>> THEN {Head(script)} ELSE {})
    ELSE IF NumGets < MaxRequests THEN FreeResponses ELSE {}

\* --------------------------------------------------------------- diagnostics

\* handle_print(text, response_url)
handle_print(l, text, url) ==
    Append(l, IF url = NoUrl THEN <<"print", text>> ELSE <<"POST", text>>)

\* post_response(response_url, text)
post_response(l, text) == Append(l, <<"POST", text>>)


\* ------------------------------------------------------------ the programs

\* exporterVer2.py alone has the rate-limited fetcher get_data.
HasGetData == prog = "exporterVer2"
\* bot.py's get_at_cursor never looks at the HTTP status.
ChecksStatus == prog \in {"exporterVer2", "exporter"}

\* An accessor reusing the params dict of the call before.
NewParamsStale(ts) == [params EXCEPT !.ts = ts]

\* The params dict an accessor builds.
NewParams(ts) == [channel |-> "C1", limit |-> 200, ts |-> ts, cursor |-> None]

\* Program start. exporterVer2.py builds HEADERS when the module loads: without
\* the token the except branch names response_url, which nothing defines there, and
\* the NameError ends the program. bot.py's handlers post their first status
\* before they do anything else. exporter.py does nothing until get_at_cursor.
Start ==
    /\ pc = "start"
    /\ IF prog = "exporterVer2"
       THEN /\ pc' = IF token THEN "call" ELSE "crash"
            /\ log' = log
       ELSE IF prog = "bot"
       THEN /\ pc' = "call"
            /\ log' = post_response(log, <<"Retrieving">>)
       ELSE /\ pc' = "call"
            /\ log' = log
    /\ UNCHANGED fileVars
    /\ UNCHANGED renderVars
    /\ UNCHANGED <<prog, token, response_url, op, timestamps, scenario, script, params,
                   next_cursor, data, r, attempt, result, replies, ti, call, nextId>>
    /\ UNCHANGED otherVars

\* paginated_get's first two lines, once the accessor has built params. bot.py's
\* accessors read os.environ["SLACK_USER_TOKEN"] for params: a KeyError without it.
EnterPaginatedGet(ts) ==
    IF prog = "bot" /\ ~token
    THEN /\ pc' = "crash"
         /\ UNCHANGED <<params, next_cursor, result, call>>
    ELSE /\ pc' = "get_at_cursor"
         /\ params' = NewParams(ts)
         /\ next_cursor' = None
         /\ result' = <<>>
         /\ call' = call + 1

channel_history ==
    /\ pc = "call"
    /\ op = "channel_history"
    /\ EnterPaginatedGet("none")
    /\ UNCHANGED fileVars
    /\ UNCHANGED renderVars
    /\ UNCHANGED <<prog, token, response_url, op, timestamps, scenario, script,
                   data, r, attempt, replies, ti, nextId, log>>
    /\ UNCHANGED otherVars

\* One turn of channel_replies' loop over timestamps, or its return.
channel_replies ==
    /\ pc = "call"
    /\ op = "channel_replies"
    /\ IF ti <= Len(timestamps)
       THEN /\ EnterPaginatedGet(timestamps[ti])
            /\ threads' = threads
       ELSE /\ pc' = "parse_replies"
            /\ threads' = replies
            /\ UNCHANGED <<params, next_cursor, result, call>>
    /\ UNCHANGED fileVars
    /\ UNCHANGED <<users, thi, out, msgs, check_thread, messages, mi, body>>
    /\ UNCHANGED <<prog, token, response_url, op, timestamps, scenario, script,
                   data, r, attempt, replies, ti, nextId, log>>
    /\ UNCHANGED otherVars

\* get_at_cursor up to its request: the cursor goes into params; exporter.py
\* builds its headers here, and reports and exits without the token.
\* The cursor put into params, and the limit with it.
SetCursorAndLimit(ps, cursor) ==
    IF cursor.some THEN [ps EXCEPT !.cursor = cursor, !.limit = 100] ELSE ps

\* if cursor is not None: params["cursor"] = cursor
SetCursor(ps, cursor) == IF cursor.some THEN [ps EXCEPT !.cursor = cursor] ELSE ps

get_at_cursor_enter ==
    /\ pc = "get_at_cursor"
    /\ params' = SetCursor(params, next_cursor)
    /\ IF prog = "exporter" /\ ~token
       THEN /\ log' = handle_print(log, <<"Missing SLACK_USER_TOKEN">>, response_url)
            /\ pc' = "exit1"
            /\ attempt' = attempt
       ELSE /\ log' = log
            /\ pc' = "get_data"
            /\ attempt' = 0
    /\ UNCHANGED fileVars
    /\ UNCHANGED renderVars
    /\ UNCHANGED <<prog, token, response_url, op, timestamps, scenario, script,
                   next_cursor, data, r, result, replies, ti, call, nextId>>
    /\ UNCHANGED otherVars

\* get_data sleeping Retry-After seconds, without the margin.
GetDataTurnNoMargin(l, resp, att) ==
    IF HasGetData /\ resp.status = 429
    THEN Append(Append(l, <<"print", <<"Rate-limited", ToString(att)>>>>),
                <<"sleep", resp.retry>>)
    ELSE l

\* What one turn of get_data's loop adds to the log after its request got resp.
GetDataTurn(l, resp, att) ==
    IF HasGetData /\ resp.status = 429
    THEN Append(Append(l, <<"print", <<"Rate-limited", ToString(att)>>>>),
                <<"sleep", resp.retry + ADDITIONAL_SLEEP_TIME>>)
    ELSE l

\* One turn of get_data's loop (exporterVer2.py), or the single requests.get of
\* exporter.py and bot.py: the request, and the back-off sleep after a 429.
get_data ==
    /\ pc = "get_data"
    /\ \E resp \in ServerResponses :
          /\ attempt' = attempt + 1
          /\ log' = GetDataTurn(Append(log, <<"GET", call, params, resp>>), resp, attempt + 1)
          /\ nextId' = nextId + Len(resp.items)
          /\ IF HasGetData /\ resp.status = 429
             THEN /\ pc' = "get_data"
                  /\ r' = r
             ELSE /\ pc' = "got_response"
                  /\ r' = resp
    /\ script' = IF script # <<>> THEN Tail(script) ELSE script
    /\ UNCHANGED fileVars
    /\ UNCHANGED renderVars
    /\ UNCHANGED <<prog, token, response_url, op, timestamps, scenario, params,
                   next_cursor, data, result, replies, ti, call>>
    /\ UNCHANGED otherVars


\* What get_at_cursor returns: the decoded body, or the empty list of its
\* KeyError branch.
Dict(d) == [isDict |-> TRUE, d |-> d]
EmptyList == [isDict |-> FALSE, d |-> Page(0, None, 0)]

\* get_at_cursor taking a cursor of white space for a cursor.
ParseCursorNoStrip(d) ==
    IF d.cur.some /\ d.cur.s # <<>> THEN d.cur ELSE None

\* next_cursor as get_at_cursor reads it from the decoded body d.
ParseCursor(d) ==
    IF d.cur.some /\ Strip(d.cur.s) # <<>> THEN d.cur ELSE None

\* get_at_cursor after its request: the status check (not in bot.py), r.json(),
\* the "ok" check and the cursor.
get_at_cursor_return ==
    /\ pc = "got_response"
    /\ IF ChecksStatus /\ r.status # 200
       THEN /\ log' = handle_print(log, <<"ERROR", ToString(r.status)>>, response_url)
            /\ pc' = "exit1"
            /\ UNCHANGED <<next_cursor, data>>
       ELSE IF ~r.json
       THEN /\ log' = Append(log, <<"json", call>>)
            /\ pc' = "crash"
            /\ UNCHANGED <<next_cursor, data>>
       ELSE IF r.ok = "absent"
       THEN /\ log' = handle_print(Append(log, <<"json", call>>),
                                   <<"Something went wrong", "ok">>, response_url)
            /\ pc' = "extend"
            /\ next_cursor' = None
            /\ data' = EmptyList
       ELSE IF r.ok = "false" /\ prog # "bot"
       THEN /\ log' = handle_print(Append(log, <<"json", call>>),
                                   <<"I encountered an error">>, response_url)
            /\ pc' = "exit1"
            /\ UNCHANGED <<next_cursor, data>>
       ELSE /\ log' = IF r.ok = "false"
                      THEN post_response(Append(log, <<"json", call>>),
                                         <<"I encountered an error">>)
                      ELSE Append(log, <<"json", call>>)
            /\ pc' = "extend"
            /\ next_cursor' = ParseCursor(r)
            /\ data' = Dict(r)
    /\ UNCHANGED fileVars
    /\ UNCHANGED renderVars
    /\ UNCHANGED <<prog, token, response_url, op, timestamps, scenario, script, params,
                   r, attempt, result, replies, ti, call, nextId>>
    /\ UNCHANGED otherVars

\* paginated_get putting each page before the earlier ones.
ExtendFront(res, d) == d.items \o res

\* result.extend(data[combine_key]); every accessor passes a combine_key.
Extend(res, d) == res \o d.items

\* paginated_get returns res to its caller: channel_history hands it on to the
\* shell, which renders it; channel_replies appends it and goes on.
Return(res) ==
    IF op = "channel_history"
    THEN /\ pc' = "parse_channel_history"
         /\ msgs' = res
         /\ UNCHANGED <<replies, ti>>
    ELSE /\ pc' = "call"
         /\ replies' = Append(replies, res)
         /\ ti' = ti + 1
         /\ msgs' = msgs

\* paginated_get after get_at_cursor returned: the extend, its KeyError branch,
\* and the test that ends the loop.
paginated_get ==
    /\ pc = "extend"
    /\ IF ~data.isDict
       THEN \* [][combine_key]: a TypeError, which nothing catches
            /\ pc' = "crash"
            /\ UNCHANGED <<result, replies, ti, log, msgs>>
       ELSE IF ~data.d.coll /\ prog = "exporterVer2"
       THEN /\ log' = handle_print(log, <<"Something went wrong", "combine_key">>,
                                   response_url)
            /\ pc' = "exit1"
            /\ UNCHANGED <<result, replies, ti, msgs>>
       ELSE IF ~data.d.coll /\ prog = "exporter"
       THEN \* the handler names e, which its except clause never bound
            /\ pc' = "crash"
            /\ UNCHANGED <<result, replies, ti, log, msgs>>
       ELSE /\ log' = IF data.d.coll THEN log
                      ELSE post_response(log, <<"Sorry! I got an unexpected response">>)
            /\ result' = IF data.d.coll THEN Extend(result, data.d) ELSE result
            /\ IF next_cursor.some
               THEN /\ pc' = "get_at_cursor"
                    /\ UNCHANGED <<replies, ti, msgs>>
               ELSE Return(result')
    /\ UNCHANGED fileVars
    /\ UNCHANGED <<users, threads, thi, out, check_thread, messages, mi, body>>
    /\ UNCHANGED <<prog, token, response_url, op, timestamps, scenario, script, params,
                   next_cursor, data, r, attempt, call, nextId>>
    /\ UNCHANGED otherVars

\* ---------------------------------------------------------------- renderer

\* "*" * 24
Stars == "************************"

\* round(float(ts)), ts in tenths of a second: Python rounds a half to even.
Round(ts) ==
    LET q == ts \div 10
        m == ts % 10
    IN  IF m > 5 \/ (m = 5 /\ q % 2 = 1) THEN q + 1 ELSE q

\* datetime.fromtimestamp(...).strftime("%m-%d-%y %H:%M:%S"): one token per second
FormatTs(ts) == <<ToString(Round(ts))>>

\* name_from_uid(user_id, usrs, real): the first user with that id
RECURSIVE name_from_uid(_, _, _)
name_from_uid(user_id, usrs, real) ==
    IF usrs = <<>> THEN "[null user]"
    ELSE LET user == Head(usrs) IN
         IF user.id # user_id THEN name_from_uid(user_id, Tail(usrs), real)
         ELSE IF ~real THEN user.name
         ELSE IF "profile" \in DOMAIN user /\ "real_name" \in DOMAIN user.profile
         THEN user.profile.real_name
         ELSE IF "profile" \in DOMAIN user /\ "display_name" \in DOMAIN user.profile
         THEN user.profile.display_name
         ELSE "[no full name]"

\* The replacement for the first user of the directory only.
MentionsFirstOnly(text, ids, usrs) ==
    IF ids = <<>> THEN text
    ELSE Replace(text, <<"<@", Head(ids), ">">>,
                 <<"<@", Head(ids), ">", " ", "(", name_from_uid(Head(ids), usrs, FALSE), ")">>)

\* The loop of parse_channel_history over the user ids: every <@id> gets the
\* user's name after it.
RECURSIVE Mentions(_, _, _)
Mentions(text, ids, usrs) ==
    IF ids = <<>> THEN text
    ELSE Mentions(Replace(text, <<"<@", Head(ids), ">">>,
                          <<"<@", Head(ids), ">", " ", "(",
                            name_from_uid(Head(ids), usrs, FALSE), ")">>),
                  Tail(ids), usrs)

\* The "Reactions: " line of a message.
Reactions(rxns, usrs) ==
    LET Names(x) == Join([i \in DOMAIN x.users |->
                             <<name_from_uid(x.users[i], usrs, FALSE)>>], <<",", " ">>)
        One(x) == <<x.name, " ", "(">> \o Names(x) \o <<")">>
    IN  <<"\n", "Reactions:", " ">> \o Join([i \in DOMAIN rxns |-> One(rxns[i])], <<",", " ">>)

IsDeleted(f) == "name" \notin DOMAIN f \/ "url_private_download" \notin DOMAIN f
IsOkFile(f) == ~IsDeleted(f)

\* The "Files:" section of a message.
Files(files) ==
    LET deleted == SelectSeq(files, IsDeleted)
        ok_files == SelectSeq(files, IsOkFile)
        OkLine(f) == <<" ", "- [", f.id, "]", " ", f.name, ",", " ", f.url_private_download>>
        DeletedLine(f) ==
            <<" ", "- [", f.id, "]", " ", "[deleted, oversize, or unavailable file]">>
    IN  <<"\n", "Files:", "\n">>
            \o Join([i \in DOMAIN ok_files |-> OkLine(ok_files[i])], <<"\n">>)
            \o Join([i \in DOMAIN deleted |-> DeletedLine(deleted[i])], <<"\n">>)

\* entry of parse_channel_history before the thread indentation.
Entry(msg, usrs) ==
    LET name == IF "user" \in DOMAIN msg
                THEN <<name_from_uid(msg.user, usrs, FALSE)>> ELSE <<>>
        real_name == IF "user" \in DOMAIN msg
                     THEN name_from_uid(msg.user, usrs, TRUE) ELSE "none"
        text == Mentions(IF Strip(msg.text) # <<>> THEN msg.text
                         ELSE <<"[no message content]">>,
                         [i \in DOMAIN usrs |-> usrs[i].id], usrs)
    IN  <<"Message at", " ">> \o FormatTs(msg.ts)
            \o <<"\n", "User:", " ">> \o name \o <<" ", "(", real_name, ")", "\n">>
            \o text
            \o (IF "reactions" \in DOMAIN msg THEN Reactions(msg.reactions, usrs) ELSE <<>>)
            \o (IF "files" \in DOMAIN msg THEN Files(msg.files) ELSE <<>>)
            \o <<"\n", "\n", Stars, "\n", "\n">>

\* One tab before the entry's first line only.
IndentFirstLine(entry) == <<"\t">> \o entry

\* "\n".join("\t%s" % x for x in entry.split("\n"))
Indent(entry) ==
    LET lines == Split(entry, "\n")
    IN  Join([i \in DOMAIN lines |-> <<"\t">> \o lines[i]], <<"\n">>)

\* Whether parse_channel_history indents msg's entry.
IsReply(msg, thread) == thread /\ "parent_user_id" \in DOMAIN msg

\* What parse_channel_history adds to body for msg.
Block(msg, usrs, thread) ==
    RStripTabs(IF IsReply(msg, thread) THEN Indent(Entry(msg, usrs)) ELSE Entry(msg, usrs))

\* Every record taken for a message.
IsMessageAny(x) == TRUE

IsMessage(x) == x.type = "message"

\* parse_replies: one turn of its loop over threads, or its return.
parse_replies ==
    /\ pc = "parse_replies"
    /\ IF thi <= Len(threads)
       THEN /\ pc' = "parse_channel_history"
            /\ msgs' = threads[thi]
            /\ check_thread' = TRUE
       ELSE /\ pc' = "done"
            /\ UNCHANGED <<msgs, check_thread>>
    /\ UNCHANGED fileVars
    /\ UNCHANGED <<fetchVars_but_pc, users, threads, thi, out, messages, mi, body>>
    /\ UNCHANGED otherVars

\* parse_channel_history up to its loop: the records of type "message".
parse_channel_history ==
    /\ pc = "parse_channel_history"
    /\ messages' = SelectSeq(msgs, IsMessage)
    /\ body' = <<>>
    /\ mi' = 1
    /\ pc' = "parse_loop"
    /\ UNCHANGED fileVars
    /\ UNCHANGED <<fetchVars_but_pc, users, threads, thi, out, msgs, check_thread>>
    /\ UNCHANGED otherVars

\* One turn of parse_channel_history's loop over messages.
parse_message ==
    /\ pc = "parse_loop"
    /\ mi <= Len(messages)
    /\ body' = body \o Block(messages[mi], users, check_thread)
    /\ mi' = mi + 1
    /\ UNCHANGED fileVars
    /\ UNCHANGED <<fetchVars, users, threads, thi, out, msgs, check_thread, messages>>
    /\ UNCHANGED otherVars

\* parse_channel_history returns body: to parse_replies, which adds it and a
\* newline to its own body, or to the shell.
parse_channel_history_return ==
    /\ pc = "parse_loop"
    /\ mi > Len(messages)
    /\ IF op = "channel_replies"
       THEN /\ out' = out \o body \o <<"\n">>
            /\ thi' = thi + 1
            /\ pc' = "parse_replies"
       ELSE /\ out' = body
            /\ thi' = thi
            /\ pc' = "done"
    /\ UNCHANGED fileVars
    /\ UNCHANGED <<fetchVars_but_pc, users, threads, msgs, check_thread, messages, mi, body>>
    /\ UNCHANGED otherVars

\* ------------------------------------------------------------ channel list

\* ch_type of parse_channel_list
ChannelType(channel) ==
    IF "is_im" \in DOMAIN channel /\ channel.is_im THEN "direct_message"
    ELSE IF "is_mpim" \in DOMAIN channel /\ channel.is_mpim THEN "multiparty-direct_message"
    ELSE IF "group" \in DOMAIN channel /\ channel.is_group THEN "group"
    ELSE "channel"

\* The line parse_channel_list adds to result for channel.
ChannelLine(channel, usrs) ==
    LET ch_name == IF "name" \in DOMAIN channel THEN channel.name ELSE <<>>
        ch_private == IF "is_private" \in DOMAIN channel /\ channel.is_private
                      THEN <<"private", " ">> ELSE <<>>
        ch_ownership ==
            IF "creator" \in DOMAIN channel
            THEN <<"created by", " ", name_from_uid(channel.creator, usrs, FALSE)>>
            ELSE IF "user" \in DOMAIN channel
            THEN <<"with", " ", name_from_uid(channel.user, usrs, FALSE)>>
            ELSE <<>>
    IN  <<"[", channel.id, "]">>
            \o (IF Strip(ch_name) # <<>> THEN <<" ">> \o ch_name \o <<":">> ELSE ch_name)
            \o <<" ">> \o ch_private \o <<ChannelType(channel)>> \o <<" ">>
            \o ch_ownership \o <<"\n">>

\* One turn of parse_channel_list's loop over channels.
parse_channel_list ==
    /\ pc = "parse_channel_list"
    /\ chi <= Len(channels)
    /\ list_result' = list_result \o ChannelLine(channels[chi], users)
    /\ chi' = chi + 1
    /\ UNCHANGED <<channels, botVars>>
    /\ UNCHANGED <<fetchVars, renderVars, fileVars>>

\* parse_channel_list returns result.
parse_channel_list_return ==
    /\ pc = "parse_channel_list"
    /\ chi > Len(channels)
    /\ pc' = "done"
    /\ UNCHANGED <<fetchVars_but_pc, renderVars, fileVars, otherVars>>

\* -------------------------------------------------------------- downloader

\* The files the listing is made of; "/" stands for the characters a file name
\* may not hold.
FileInfos ==
    { [id |-> "F1", name |-> <<"re", "/", "port">>, url_private |-> "u1"],
      [id |-> "F2", name |-> <<"notes">>, url_private |-> "u2"] }

IsValidChar(c) == c # "/"

\* pathvalidate's sanitize_filename: the name without its invalid characters
sanitize_filename(name) == SelectSeq(name, IsValidChar)

\* os.path.join(file_dir, "{id}-{name}".format(**file_info)), name sanitized
Destination(file_info) == <<"dir", "/", file_info.id, "-">> \o sanitize_filename(file_info.name)

AllPaths == {Destination(f) : f \in FileInfos}
Listings == UNION {[1..n -> FileInfos] : n \in 0..MaxListFiles}

\* The listing is served MaxPageFiles files to the page.
NumPages == (Len(listing) + MaxPageFiles - 1) \div MaxPageFiles
Min(a, b) == IF a <= b THEN a ELSE b
ListPage(page) ==
    SubSeq(listing, (page - 1) * MaxPageFiles + 1, Min(page * MaxPageFiles, Len(listing)))

\* What files.list may answer to the request for page: the page, with the page
\* count in paging.pages; a throttling response; an error without "paging".
ListThrottles == Len(SelectSeq(listLog, LAMBDA e : e[2] = 429))
ListResponses(page) ==
    { [status |-> 200, ok |-> TRUE, pages |-> NumPages, files |-> ListPage(page)],
      [status |-> 200, ok |-> FALSE, pages |-> 0, files |-> <<>>] }
        \cup (IF ListThrottles < MaxListThrottles
              THEN {[status |-> 429, ok |-> FALSE, pages |-> 0, files |-> <<>>]}
              ELSE {})

\* The loop of get_file_list leaving before the last page.
MorePagesButLast(page, pages) == page < pages

\* while current_page <= total_pages
MorePages(page, pages) == page <= pages

\* download_file never got past os.path.exists
ExistsNever(path) == FALSE

\* os.path.exists(destination_path)
Exists(path) == fs[path] # "absent"

\* save_files going on to the next file whatever download_success is
AfterAttemptsSkip(success) == "yield"

\* Where save_files goes after its attempts: on, or to its raise.
AfterAttempts(success) == IF success THEN "yield" ELSE "raised"

\* save_files up to its loop; it may run again on the same directory once a run
\* has ended.
save_files ==
    /\ pc \in {"save_files", "files_done", "raised", "files_crash"}
    /\ run < MaxRuns
    /\ run' = run + 1
    /\ total' = 0
    /\ current_page' = 1
    /\ total_pages' = 1
    /\ pending' = <<>>
    /\ yielded' = 0
    /\ fs0' = fs
    /\ dl0' = dl
    /\ dl' = [p \in DOMAIN dl |-> 0]
    /\ listLog' = <<>>
    /\ outcome' = "none"
    /\ pc' = "get_file_list"
    /\ UNCHANGED <<listing, fs, destination_path, download_success, dl_attempt>>
    /\ UNCHANGED renderVars
    /\ UNCHANGED fetchVars_but_pc
    /\ UNCHANGED otherVars

\* One turn of get_file_list's loop up to its first yield (each request is one
\* turn of get_data's loop), or the end of the listing and of save_files.
get_file_list ==
    /\ pc = "get_file_list"
    /\ IF MorePages(current_page, total_pages)
       THEN \E resp \in ListResponses(current_page) :
               /\ listLog' = Append(listLog, <<current_page, resp.status, resp.ok>>)
               /\ IF resp.status = 429
                  THEN /\ pc' = "get_file_list"
                       /\ UNCHANGED <<total_pages, pending>>
                  ELSE IF ~resp.ok
                  THEN \* json_data["paging"]: a KeyError, which nothing catches
                       /\ pc' = "files_crash"
                       /\ UNCHANGED <<total_pages, pending>>
                  ELSE /\ total_pages' = resp.pages
                       /\ pending' = resp.files
                       /\ pc' = "yield"
       ELSE /\ pc' = "files_done"
            /\ UNCHANGED <<listLog, total_pages, pending>>
    /\ UNCHANGED <<listing, fs, fs0, run, current_page, yielded, destination_path,
                   download_success, dl_attempt, total, outcome, dl, dl0>>
    /\ UNCHANGED renderVars
    /\ UNCHANGED fetchVars_but_pc
    /\ UNCHANGED otherVars

\* get_file_list yields the next file of its page to save_files, which names the
\* destination; or it goes on to the next page.
get_file_list_yield ==
    /\ pc = "yield"
    /\ IF pending # <<>>
       THEN /\ destination_path' = Destination(Head(pending))
            /\ pending' = Tail(pending)
            /\ yielded' = yielded + 1
            /\ download_success' = FALSE
            /\ dl_attempt' = 1
            /\ outcome' = "none"
            /\ pc' = "download"
            /\ current_page' = current_page
       ELSE /\ current_page' = current_page + 1
            /\ pc' = "get_file_list"
            /\ UNCHANGED <<destination_path, pending, yielded, download_success,
                           dl_attempt, outcome>>
    /\ UNCHANGED <<listing, fs, fs0, run, total_pages, total, dl, dl0, listLog>>
    /\ UNCHANGED renderVars
    /\ UNCHANGED fetchVars_but_pc
    /\ UNCHANGED otherVars

\* One turn of save_files' attempt loop: download_file. It returns True for a
\* path that exists; else it requests the file and writes it, and an exception
\* before the file is opened or after leaves nothing or a partial file.
download_file ==
    /\ pc = "download"
    /\ ~download_success
    /\ dl_attempt <= MaxAttempts
    /\ IF Exists(destination_path)
       THEN /\ outcome' = "skipped"
            /\ download_success' = TRUE
            /\ UNCHANGED <<fs, dl>>
       ELSE /\ dl' = [dl EXCEPT ![destination_path] = @ + 1]
            /\ \/ /\ outcome' = "written"
                  /\ fs' = [fs EXCEPT ![destination_path] = "complete"]
                  /\ download_success' = TRUE
               \/ /\ outcome' = "raised_before_open"
                  /\ fs' = fs
                  /\ download_success' = FALSE
               \/ /\ outcome' = "raised_after_open"
                  /\ fs' = [fs EXCEPT ![destination_path] = "partial"]
                  /\ download_success' = FALSE
    /\ dl_attempt' = dl_attempt + 1
    /\ UNCHANGED <<listing, fs0, run, current_page, total_pages, pending, yielded,
                   destination_path, total, dl0, listLog>>
    /\ UNCHANGED renderVars
    /\ UNCHANGED fetchVars
    /\ UNCHANGED otherVars

\* save_files after its attempt loop: the raise, or total += 1.
save_files_count ==
    /\ pc = "download"
    /\ download_success \/ dl_attempt > MaxAttempts
    /\ pc' = AfterAttempts(download_success)
    /\ total' = IF download_success THEN total + 1 ELSE total
    /\ UNCHANGED <<listing, fs, fs0, run, current_page, total_pages, pending, yielded,
                   destination_path, download_success, dl_attempt, outcome, dl, dl0,
                   listLog>>
    /\ UNCHANGED renderVars
    /\ UNCHANGED fetchVars_but_pc
    /\ UNCHANGED otherVars

\* ------------------------------------------------------------ bot.py download

\* The name export_channel and export_replies give the file, with its uuid part.
Filename == "team-ch_C1-a1b2c3.txt"

\* The lines an export file may hold.
Contents == {[i \in 1..n |-> ToString(i)] : n \in 1..MaxLines}

\* export_channel or export_replies writes the export file and posts its link.
export_channel ==
    /\ pc = "serve"
    /\ content = <<>>
    /\ \E c \in Contents : content' = c
    /\ exports' = exports \cup {Filename}
    /\ UNCHANGED <<downloads, listVars>>
    /\ UNCHANGED <<fetchVars, renderVars, fileVars>>

\* download: a request for the file; the response is built around generate(),
\* which has not run yet.
download ==
    /\ pc = "serve"
    /\ content # <<>>
    /\ Len(downloads) < MaxDownloads
    /\ downloads' = Append(downloads, [st |-> "new", sent |-> 0])
    /\ UNCHANGED <<exports, content, listVars>>
    /\ UNCHANGED <<fetchVars, renderVars, fileVars>>

\* generate up to its first yield: open(path), which raises when the file is
\* gone.
generate_open ==
    /\ pc = "serve"
    /\ \E i \in DOMAIN downloads :
          /\ downloads[i].st = "new"
          /\ downloads' = [downloads EXCEPT
                              ![i].st = IF Filename \in exports THEN "open" ELSE "error"]
    /\ UNCHANGED <<exports, content, listVars>>
    /\ UNCHANGED <<fetchVars, renderVars, fileVars>>

\* generate yields the next line of the file it holds open, removed or not.
generate_yield ==
    /\ pc = "serve"
    /\ \E i \in DOMAIN downloads :
          /\ downloads[i].st = "open"
          /\ downloads[i].sent < Len(content)
          /\ downloads' = [downloads EXCEPT ![i].sent = @ + 1]
    /\ UNCHANGED <<exports, content, listVars>>
    /\ UNCHANGED <<fetchVars, renderVars, fileVars>>

\* generate after its last line: the file is closed and os.remove(path) runs,
\* which raises when the file is gone.
generate_remove ==
    /\ pc = "serve"
    /\ \E i \in DOMAIN downloads :
          /\ downloads[i].st = "open"
          /\ downloads[i].sent = Len(content)
          /\ downloads' = [downloads EXCEPT
                              ![i].st = IF Filename \in exports THEN "done" ELSE "remove_raised"]
    /\ exports' = exports \ {Filename}
    /\ UNCHANGED <<content, listVars>>
    /\ UNCHANGED <<fetchVars, renderVars, fileVars>>

\* The client goes away before the end: the server closes generate at its yield,
\* the file is closed and os.remove is not reached.
generate_close ==
    /\ pc = "serve"
    /\ \E i \in DOMAIN downloads :
          /\ downloads[i].st = "open"
          /\ downloads[i].sent >= 1
          /\ downloads[i].sent < Len(content)
          /\ downloads' = [downloads EXCEPT ![i].st = "closed"]
    /\ UNCHANGED <<exports, content, listVars>>
    /\ UNCHANGED <<fetchVars, renderVars, fileVars>>

\* ------------------------------------------------------------ specification

\* The fetch pipeline's state while another part of the program runs.
FetchIdle ==
    /\ prog = "exporterVer2"
    /\ token = TRUE
    /\ response_url = NoUrl
    /\ timestamps = <<>>
    /\ scenario = "free"
    /\ script = <<>>
    /\ params = [channel |-> "C1", limit |-> 200, ts |-> "none", cursor |-> None]
    /\ next_cursor = None
    /\ data = EmptyList
    /\ r = Page(0, None, 0)
    /\ attempt = 0
    /\ result = <<>>
    /\ replies = <<>>
    /\ ti = 1
    /\ call = 0
    /\ nextId = 1
    /\ log = <<>>

\* The renderer's state while another part of the program runs.
RenderIdle ==
    /\ users = SampleUsers
    /\ threads = <<>>
    /\ thi = 1
    /\ out = <<>>
    /\ msgs = <<>>
    /\ check_thread = FALSE
    /\ messages = <<>>
    /\ mi = 1
    /\ body = <<>>

InitFetch ==
    /\ prog \in Progs
    /\ token \in BOOLEAN
    /\ response_url \in (IF prog = "bot" THEN {"url"} ELSE {NoUrl, "url"})
    /\ \/ /\ scenario = "free"
          /\ script = <<>>
          /\ \/ op = "channel_history" /\ timestamps = <<>>
             \/ op = "channel_replies" /\ timestamps \in TsLists
       \/ /\ scenario = "e2e"
          /\ script = E2EScript
          /\ prog = "exporterVer2" /\ token /\ response_url = NoUrl
          /\ op = "channel_history" /\ timestamps = <<>>
    /\ pc = "start"
    /\ params = [channel |-> "C1", limit |-> 200, ts |-> "none", cursor |-> None]
    /\ next_cursor = None
    /\ data = EmptyList
    /\ r = Page(0, None, 0)
    /\ attempt = 0
    /\ result = <<>>
    /\ replies = <<>>
    /\ ti = 1
    /\ call = 0
    /\ nextId = 1
    /\ log = <<>>
    /\ users = SampleUsers
    /\ threads = <<>>
    /\ thi = 1
    /\ out = <<>>
    /\ msgs = <<>>
    /\ check_thread = FALSE
    /\ messages = <<>>
    /\ mi = 1
    /\ body = <<>>

\* The downloader's state while another part of the program runs.
FilesIdle ==
    /\ listing = <<>>
    /\ fs = [p \in {} |-> "absent"]
    /\ fs0 = fs
    /\ run = 0
    /\ current_page = 1
    /\ total_pages = 1
    /\ pending = <<>>
    /\ yielded = 0
    /\ destination_path = <<>>
    /\ download_success = FALSE
    /\ dl_attempt = 1
    /\ total = 0
    /\ outcome = "none"
    /\ dl = [p \in {} |-> 0]
    /\ dl0 = dl
    /\ listLog = <<>>

\* parse_channel_list and the webhook's export files while another part runs.
ListIdle ==
    /\ channels = <<>>
    /\ chi = 1
    /\ list_result = <<>>

BotIdle ==
    /\ exports = {}
    /\ content = <<>>
    /\ downloads = <<>>

OtherIdle == ListIdle /\ BotIdle

Init == InitFetch /\ FilesIdle /\ OtherIdle

Next ==
    \/ Start
    \/ channel_history
    \/ channel_replies
    \/ get_at_cursor_enter
    \/ get_data
    \/ get_at_cursor_return
    \/ paginated_get
    \/ parse_replies
    \/ parse_channel_history
    \/ parse_message
    \/ parse_channel_history_return

Spec == Init /\ [][Next]_vars

\* save_files (exporterVer2.py --files) on a directory that holds any of the files.
InitFiles ==
    /\ OtherIdle
    /\ FetchIdle
    /\ op = "save_files"
    /\ RenderIdle
    /\ pc = "save_files"
    /\ listing \in Listings
    /\ fs \in [AllPaths -> {"absent", "complete"}]
    /\ fs0 = fs
    /\ run = 0
    /\ current_page = 1
    /\ total_pages = 1
    /\ pending = <<>>
    /\ yielded = 0
    /\ destination_path = <<>>
    /\ download_success = FALSE
    /\ dl_attempt = 1
    /\ total = 0
    /\ outcome = "none"
    /\ dl = [p \in AllPaths |-> 0]
    /\ dl0 = dl
    /\ listLog = <<>>

NextFiles ==
    \/ save_files
    \/ get_file_list
    \/ get_file_list_yield
    \/ download_file
    \/ save_files_count

SpecFiles == InitFiles /\ [][NextFiles]_vars

\* The records the renderer is given: messages with and without each optional
\* field, with text of one line, of several, and blank; and a record of another
\* type.
HelloText == <<"hello", " ", "<@", "U1", ">", " ", "and", " ", "<@", "U2", ">">>
RenderTexts ==
    { HelloText,
      <<"a", "\n", "\t", "<@", "U7", ">", "<@", "U1", ">", "<@", "U1", ">", "\n">>,
      <<" ">> }
SampleReactions == << [name |-> "tada", users |-> <<"U1", "U9">>], [name |-> "eyes", users |-> <<"U1">>] >>
SampleFiles ==
    << [id |-> "F1", name |-> "notes", url_private_download |-> "u1"], [id |-> "F2"] >>
RenderMessages ==
    { [type |-> "message", ts |-> 15, text |-> t] @@ u @@ p @@ x :
        t \in RenderTexts,
        u \in {<<>>, [user |-> "U1"]},
        p \in {<<>>, [parent_user_id |-> "U1"]},
        x \in {<<>>, [reactions |-> SampleReactions, files |-> SampleFiles]} }
        \cup { [type |-> "channel_join", ts |-> 25, text |-> <<"j">>, parent_user_id |-> "U1"] }
RenderInputs == UNION {[1..n -> RenderMessages] : n \in 0..MaxMsgs}
RenderUsers ==
    { SampleUsers,
      <<[id |-> "U2", name |-> "bob", profile |-> [display_name |-> "Bobby"]],
        [id |-> "U1", name |-> "alice", profile |-> [real_name |-> "Alice A"]]>> }

\* The renderers on any input: parse_channel_history on a channel's history, as the
\* shell calls it, or parse_replies on the threads.
InitRender ==
    /\ OtherIdle
    /\ FetchIdle
    /\ FilesIdle
    /\ users \in RenderUsers
    /\ thi = 1
    /\ out = <<>>
    /\ check_thread = FALSE
    /\ messages = <<>>
    /\ mi = 1
    /\ body = <<>>
    /\ \E ms \in RenderInputs :
          \/ /\ op = "channel_history"
             /\ pc = "parse_channel_history"
             /\ msgs = ms
             /\ threads = <<>>
          \/ /\ op = "channel_replies"
             /\ pc = "parse_replies"
             /\ msgs = <<>>
             /\ \E k \in 0..Len(ms) :
                   threads = <<SubSeq(ms, 1, k), SubSeq(ms, k + 1, Len(ms))>>

NextRender ==
    \/ parse_replies
    \/ parse_channel_history
    \/ parse_message
    \/ parse_channel_history_return

SpecRender == InitRender /\ [][NextRender]_vars

\* The channels of conversations.list: each of is_im, is_mpim and is_group is
\* absent, false or true; a channel has a creator, or a user when it is a direct
\* message.
Flag(name) == {<<>>, name :> FALSE, name :> TRUE}
SampleChannels ==
    { [id |-> "C1", name |-> <<"general">>] @@ im @@ mpim @@ group @@ owner :
        im \in Flag("is_im"),
        mpim \in Flag("is_mpim"),
        group \in Flag("is_group"),
        owner \in {[creator |-> "U1", is_private |-> TRUE], [user |-> "U9"]} }
ChannelLists == UNION {[1..n -> SampleChannels] : n \in 0..MaxChannels}

\* parse_channel_list (exporterVer2.py -lc) on any list of channels.
InitList ==
    /\ FetchIdle
    /\ RenderIdle
    /\ FilesIdle
    /\ BotIdle
    /\ op = "channel_list"
    /\ pc = "parse_channel_list"
    /\ channels \in ChannelLists
    /\ chi = 1
    /\ list_result = <<>>

NextList ==
    \/ parse_channel_list
    \/ parse_channel_list_return

SpecList == InitList /\ [][NextList]_vars

\* The webhook service (bot.py) with one export and the requests for its file; the
\* requests are served by threads of their own.
InitServe ==
    /\ FetchIdle
    /\ RenderIdle
    /\ FilesIdle
    /\ ListIdle
    /\ BotIdle
    /\ op = "serve"
    /\ pc = "serve"

NextServe ==
    \/ export_channel
    \/ download
    \/ generate_open
    \/ generate_yield
    \/ generate_remove
    \/ generate_close

SpecServe == InitServe /\ [][NextServe]_vars


\* ------------------------------------------------------- reading the log

IsGet(e) == e[1] = "GET"
IsSleep(e) == e[1] = "sleep"
IsNetwork(e) == e[1] \in {"GET", "POST"}
IsDiagnostic(e) == e[1] \in {"print", "POST"}

\* The GET requests in order, each <<"GET", call, params, response>>.
GetSeq == SelectSeq(log, IsGet)

\* The responses the paginated_get call c was given as pages: get_data keeps the
\* throttling ones to itself.
PagesOf(c) ==
    LET OfCall(e) == IsGet(e) /\ e[2] = c /\ ~(HasGetData /\ e[4].status = 429)
        evs == SelectSeq(log, OfCall)
    IN  [i \in DOMAIN evs |-> evs[i][4]]

RECURSIVE Concat(_)
Concat(pages) == IF pages = <<>> THEN <<>> ELSE Head(pages).items \o Concat(Tail(pages))

Successful(p) == p.status = 200 /\ p.json /\ p.ok = "true" /\ p.coll
ApiFailed(p) == p.status = 200 /\ p.json /\ (p.ok = "false" \/ ~p.coll)
\* No cursor, or one that is empty or all white space.
Terminating(p) == ~p.cur.some \/ \A i \in DOMAIN p.cur.s : IsSpace(p.cur.s[i])

AfterFetch == {"parse_replies", "parse_channel_history", "parse_loop", "done"}
Ended == {"exit1", "crash"}

\* The paginated_get calls that returned to their caller, and what they returned.
ReturnedCalls ==
    IF op = "channel_history" THEN (IF pc \in AfterFetch THEN {1} ELSE {})
    ELSE 1..Len(replies)
ReturnValue(c) == IF op = "channel_history" THEN result ELSE replies[c]

\* ------------------------------------------------------------------ claims

\* C1: a paginated_get call whose pages were all successful returns the
\* concatenation of the pages' collections in the order served, its last page is
\* the first one whose next_cursor is absent, empty or white space, and no call
\* requests a page after such a page.
C1_Concatenation ==
    /\ \A c \in ReturnedCalls :
          LET pages == PagesOf(c) IN
          (\A i \in DOMAIN pages : Successful(pages[i])) =>
              /\ ReturnValue(c) = Concat(pages)
              /\ pages # <<>>
              /\ Terminating(pages[Len(pages)])
    /\ \A c \in 1..call :
          LET pages == PagesOf(c) IN
          \A i \in 1..(Len(pages) - 1) : Successful(pages[i]) => ~Terminating(pages[i])

C1_Witness ==
    \E c \in ReturnedCalls :
        LET pages == PagesOf(c) IN
        /\ Len(pages) >= 2
        /\ \A i \in DOMAIN pages : Successful(pages[i])
        /\ Len(ReturnValue(c)) >= 2
        /\ pages[Len(pages)].cur = Some(<<" ", "\t">>)

\* The number of throttling responses that end at the request before the n-th.
RECURSIVE ThrottlesBefore(_)
ThrottlesBefore(n) ==
    IF n > 1 /\ GetSeq[n - 1][4].status = 429 /\ GetSeq[n - 1][2] = GetSeq[n][2]
    THEN 1 + ThrottlesBefore(n - 1) ELSE 0

C3_ApiErrorEndsFetch ==
    \A c \in 1..call :
        LET pages == PagesOf(c) IN
        \A i \in DOMAIN pages :
            ApiFailed(pages[i]) =>
                /\ i = Len(pages)
                /\ c \notin ReturnedCalls
                /\ pc \notin {"got_response", "extend"} =>
                      /\ pc \in Ended
                      /\ pc = "exit1" => IsDiagnostic(log[Len(log)])

\* C4: the end-to-end scenario never fails, and ends with exactly 250 message
\* blocks in the server's order after exactly one sleep and exactly three requests.
C4_EndToEnd ==
    scenario = "e2e" =>
        /\ pc \notin Ended
        /\ pc = "done" =>
              LET IsStars(t) == t = Stars
                  IsHeader(i) == out[i] = "Message at"
                  heads == SelectSeq([i \in DOMAIN out |-> i], IsHeader)
              IN  /\ Len(SelectSeq(out, IsStars)) = 250
                  /\ Len(heads) = 250
                  /\ \A k \in DOMAIN heads : out[heads[k] + 2] = ToString(k)
                  /\ Len(SelectSeq(log, IsSleep)) = 1
                  /\ Len(GetSeq) = 3

C4_Witness ==
    /\ scenario = "e2e"
    /\ pc = "done"
    /\ Len(result) = 250
    /\ out # <<>>


\* C7: channel_replies returns one thread per root timestamp, the i-th being what
\* the i-th paginated call collected for timestamps[i]; the calls run one after
\* another in input order, each finishing its pages before the next begins, and
\* the first request of each call carries no cursor.
C7_RepliesInOrder ==
    op = "channel_replies" =>
        /\ pc \in AfterFetch =>
              /\ Len(replies) = Len(timestamps)
              /\ threads = replies
              /\ \A i \in DOMAIN replies : replies[i] = Concat(PagesOf(i))
        /\ \A i \in DOMAIN GetSeq :
              /\ GetSeq[i][2] \in DOMAIN timestamps
              /\ GetSeq[i][3].ts = timestamps[GetSeq[i][2]]
              /\ i > 1 => GetSeq[i - 1][2] <= GetSeq[i][2]
              /\ (i = 1 \/ GetSeq[i - 1][2] < GetSeq[i][2]) =>
                    /\ ~GetSeq[i][3].cursor.some
                    /\ GetSeq[i][2] = (IF i = 1 THEN 1 ELSE GetSeq[i - 1][2] + 1)
                    /\ i > 1 => ParseCursor(GetSeq[i - 1][4]) = None

C7_Witness ==
    /\ op = "channel_replies"
    /\ pc = "done"
    /\ Len(replies) = 2
    /\ Len(PagesOf(1)) = 2
    /\ Len(replies[1]) = 2
    /\ Len(replies[2]) = 1
    /\ timestamps[1] # timestamps[2]

\* C8: without SLACK_USER_TOKEN the program ends before it attempts any network
\* call, API GET or callback POST.
C8_NoTokenNoNetwork ==
    ~token => \A i \in DOMAIN log : ~IsNetwork(log[i])

\* C9: after a page request ended with an HTTP status that is neither 200 nor
\* 429, no further request is made, the body is not parsed, and the program
\* reports the status and exits with code 1 instead of returning records.
C9_HttpErrorEndsFetch ==
    \A i \in Gets :
        log[i][4].status \notin {200, 429} =>
            /\ \A j \in Gets : j <= i
            /\ \A j \in (i + 1)..Len(log) : log[j][1] # "json"
            /\ log[i][2] \notin ReturnedCalls
            /\ pc # "got_response" =>
                  /\ pc = "exit1"
                  /\ IsDiagnostic(log[Len(log)])
                  /\ log[Len(log)][2] = <<"ERROR", ToString(log[i][4].status)>>


\* C5: in save_files a file gets at most 10 attempts, and so at most 10 download
\* requests; an attempt that raised has failed; a file whose attempts all failed
\* ends the run in the raise, with no later file yielded, attempted or counted:
\* every file yielded before the one in hand has been counted, so none was
\* skipped for the batch to go on.
C5_TenAttemptsThenAbort ==
    /\ dl_attempt <= MaxAttempts + 1
    /\ \A p \in DOMAIN dl : dl[p] <= MaxAttempts
    /\ (pc = "download" /\ outcome \in {"raised_before_open", "raised_after_open"})
          => ~download_success
    /\ yielded - total \in {0, 1}
    /\ yielded - total = 1 => pc \in {"download", "raised"}
    /\ pc = "raised" =>
          /\ ~download_success
          /\ dl_attempt = MaxAttempts + 1
          /\ dl[destination_path] = MaxAttempts
          /\ total = yielded - 1

\* A run has ended in the raise while the listing held a later file.
C5_Witness ==
    /\ pc = "raised"
    /\ yielded < Len(listing)
    /\ dl[destination_path] = MaxAttempts

\* C6: a run of save_files issues no download request for a path that existed
\* when the run began, whatever the run before left there; the requests of a run
\* that finds every file are the listing's.
C6_Idempotent ==
    \A p \in DOMAIN dl : fs0[p] # "absent" => dl[p] = 0

\* The second run on a directory the first run filled has ended: the listing was
\* requested, both files were counted, nothing was downloaded.
C6_Witness ==
    /\ run = 2
    /\ pc = "files_done"
    /\ total = 2
    /\ Len(listLog) >= 2
    /\ \A p \in DOMAIN dl : dl0[p] >= 1 /\ dl[p] = 0

\* The lines of s, each ended by a newline in s; s ends with one.
LinesOf(s) == LET pieces == Split(s, "\n") IN SubSeq(pieces, 1, Len(pieces) - 1)

\* The lines a message's block is to have: those of its entry, each behind one
\* tab when the message is a reply rendered as part of a thread.
ExpectedLines(msg, usrs, thread) ==
    LET lines == LinesOf(Entry(msg, usrs))
    IN  IF thread /\ "parent_user_id" \in DOMAIN msg
        THEN [i \in DOMAIN lines |-> <<"\t">> \o lines[i]]
        ELSE lines

RECURSIVE ExpectedBody(_, _, _)
ExpectedBody(ms, usrs, thread) ==
    IF ms = <<>> THEN <<>>
    ELSE ExpectedLines(Head(ms), usrs, thread) \o ExpectedBody(Tail(ms), usrs, thread)

\* C10: while parse_channel_history renders, its body is the blocks of the
\* messages rendered so far, and it ends with a newline; with check_thread every
\* line of the block of a message that carries parent_user_id (header, text,
\* reactions, files, separator and the empty lines) is the entry's line behind
\* one tab, and the block of a message without it is its entry; without
\* check_thread every block is the message's entry.
C10_ThreadIndentation ==
    pc = "parse_loop" =>
        /\ body = <<>> \/ body[Len(body)] = "\n"
        /\ LinesOf(body) = ExpectedBody(SubSeq(messages, 1, mi - 1), users, check_thread)

\* parse_replies has had a thread rendered whose root has no parent_user_id and
\* whose reply has one, with text of several lines, reactions and files.
C10_Witness ==
    /\ pc = "parse_loop"
    /\ check_thread
    /\ mi = 3
    /\ "parent_user_id" \notin DOMAIN messages[1]
    /\ "parent_user_id" \in DOMAIN messages[2]
    /\ "files" \in DOMAIN messages[2]
    /\ Len(Split(messages[2].text, "\n")) > 1
    /\ body # <<>>

\* The attachment entries that begin in line.
Attachments(line) == Len(SelectSeq(line, LAMBDA tok : tok = "- ["))

RECURSIVE Sum(_)
Sum(ns) == IF ns = <<>> THEN 0 ELSE Head(ns) + Sum(Tail(ns))

\* C11: in what parse_channel_history has rendered, no line holds more than one
\* attachment, and there are as many attachment lines as the rendered messages
\* have attachments: each attachment, complete or not, is a line of its own.
C11_OneLinePerAttachment ==
    pc = "parse_loop" =>
        LET lines == LinesOf(body)
            rendered == SubSeq(messages, 1, mi - 1)
        IN  /\ \A i \in DOMAIN lines : Attachments(lines[i]) <= 1
            /\ Cardinality({i \in DOMAIN lines : Attachments(lines[i]) = 1})
                  = Sum([i \in DOMAIN rendered |->
                            IF "files" \in DOMAIN rendered[i]
                            THEN Len(rendered[i].files) ELSE 0])

\* text read once from left to right: every <@id> of an id of the directory is
\* followed by the name of that user in brackets, everything else is kept.
RECURSIVE MentionsOnce(_, _)
MentionsOnce(text, usrs) ==
    IF text = <<>> THEN <<>>
    ELSE IF /\ Len(text) >= 3
            /\ text[1] = "<@"
            /\ text[3] = ">"
            /\ \E j \in DOMAIN usrs : usrs[j].id = text[2]
    THEN LET j == CHOOSE k \in DOMAIN usrs : usrs[k].id = text[2]
         IN  <<"<@", text[2], ">", " ", "(", usrs[j].name, ")">>
                 \o MentionsOnce(SubSeq(text, 4, Len(text)), usrs)
    ELSE <<Head(text)>> \o MentionsOnce(Tail(text), usrs)

\* The lines of the text in msg's entry: those after the two lines of the header.
RenderedText(msg, usrs) ==
    LET pieces == Split(Entry(msg, usrs), "\n")
        n == Len(Split(msg.text, "\n"))
    IN  SubSeq(pieces, 3, 2 + n)

\* C12: the text of every rendered message that has one is its text with each
\* <@id> of an id of the directory, the author's or not, followed once by
\* " (name)" and all the rest unchanged, mentions of unknown ids included; and
\* "hello <@U1> and <@U2>" with alice and bob in the directory is rendered
\* "hello <@U1> (alice) and <@U2> (bob)".
C12_Mentions ==
    pc = "parse_loop" =>
        \A i \in 1..(mi - 1) :
            LET msg == messages[i] IN
            /\ Strip(msg.text) # <<>> =>
                  RenderedText(msg, users) = Split(MentionsOnce(msg.text, users), "\n")
            /\ (msg.text = HelloText /\ Len(users) = 2) =>
                  RenderedText(msg, users) =
                      << <<"hello", " ", "<@", "U1", ">", " ", "(", "alice", ")", " ", "and",
                           " ", "<@", "U2", ">", " ", "(", "bob", ")">> >>

\* Both texts have been rendered with alice and bob in the directory: the one of
\* the example, and the one with an unknown id and a repeated mention.
C12_Witness ==
    /\ pc = "parse_loop"
    /\ mi = 3
    /\ Len(users) = 2
    /\ messages[1].text = HelloText
    /\ \E k \in DOMAIN messages[2].text : messages[2].text[k] = "U7"
    /\ body # <<>>

\* The label of a channel by the priority of its flags.
IsTrue(channel, flag) == flag \in DOMAIN channel /\ channel[flag]
PriorityLabel(channel) ==
    IF IsTrue(channel, "is_im") THEN "direct_message"
    ELSE IF IsTrue(channel, "is_mpim") THEN "multiparty-direct_message"
    ELSE IF IsTrue(channel, "is_group") THEN "group"
    ELSE "channel"

ChannelLabels == {"direct_message", "multiparty-direct_message", "group", "channel"}

\* C13: the lines parse_channel_list has written carry, in the order of the
\* channels, the label each channel has by priority: direct_message for is_im,
\* else multiparty-direct_message for is_mpim, else group for is_group, else
\* channel.
C13_LabelByPriority ==
    pc \in {"parse_channel_list", "done"} =>
        SelectSeq(list_result, LAMBDA tok : tok \in ChannelLabels)
            = [i \in 1..(chi - 1) |-> PriorityLabel(channels[i])]

\* The files this run has written from a download response: a path is written at
\* most once in a run, since it exists from then on.
Transferred == {p \in DOMAIN fs : fs0[p] = "absent" /\ fs[p] = "complete"}

\* C14: the total save_files prints at the end of a run is the number of files
\* the run transferred.
C14_TotalIsTransferred ==
    pc = "files_done" => total = Cardinality(Transferred)

\* The lines of the blocks of the records of type "message" among ms, in the
\* order of ms.
RECURSIVE BlocksOf(_, _, _)
BlocksOf(ms, usrs, thread) ==
    IF ms = <<>> THEN <<>>
    ELSE (IF Head(ms).type = "message" THEN ExpectedLines(Head(ms), usrs, thread) ELSE <<>>)
             \o BlocksOf(Tail(ms), usrs, thread)

IsSeparator(line) == line \in {<<Stars>>, <<"\t", Stars>>}

\* C15: when parse_channel_history has gone through its input, its body is the
\* blocks of the input's records of type "message", one each and in the order of
\* the input, and nothing for the other records; a separator line is followed by
\* one empty line and then by the header of the next block or by the end; so
\* there are as many separators as records of type "message".
C15_OneBlockPerMessage ==
    (pc = "parse_loop" /\ mi > Len(messages)) =>
        LET lines == LinesOf(body)
            seps == {i \in DOMAIN lines : IsSeparator(lines[i])}
        IN  /\ lines = BlocksOf(msgs, users, check_thread)
            /\ Cardinality(seps) = Cardinality({i \in DOMAIN msgs : msgs[i].type = "message"})
            /\ Len(SelectSeq(body, LAMBDA tok : tok = Stars)) = Cardinality(seps)
            /\ \A i \in seps :
                  /\ i + 1 \in DOMAIN lines
                  /\ lines[i + 1] \in {<<>>, <<"\t">>}
                  /\ i + 2 \in DOMAIN lines =>
                        \E j \in 1..2 : lines[i + 2][j] = "Message at"
            /\ lines # <<>> => Len(lines) - 1 \in seps

\* A message and a record of another type have been gone through: one block.
C15_Witness ==
    /\ pc = "parse_loop"
    /\ mi > Len(messages)
    /\ Len(msgs) = 2
    /\ msgs[1].type # "message"
    /\ Len(messages) = 1
    /\ Len(SelectSeq(body, LAMBDA tok : tok = Stars)) = 1

\* C16: every diagnostic of a fetch has gone to the callback URL when one was
\* given and to the local output stream when none was: with a callback nothing
\* is printed, without one nothing is posted.
C16_DiagnosticsToCallback ==
    \A i \in DOMAIN log :
        /\ response_url # NoUrl => log[i][1] # "print"
        /\ response_url = NoUrl => log[i][1] # "POST"

\* The requests that were sent the whole file.
ServedInFull ==
    {i \in DOMAIN downloads :
        downloads[i].st \in {"open", "done", "remove_raised"}
            /\ content # <<>> /\ downloads[i].sent = Len(content)}

\* C17: an export file is sent in full to at most one request, and it is gone
\* once a request has streamed it to the end and left generate, however the
\* requests interleave.
C17_SingleUse ==
    /\ Cardinality(ServedInFull) <= 1
    /\ \A i \in DOMAIN downloads :
          downloads[i].st \in {"done", "remove_raised"} => Filename \notin exports

\* The listing requests of this run that were answered, not throttled.
Answered == SelectSeq(listLog, LAMBDA e : e[2] # 429)

Max(a, b) == IF a >= b THEN a ELSE b

\* C18: the answered listing requests of a run are those for pages 1, 2, ... in
\* this order, each once, a throttled request being repeated for the same page;
\* the k-th file get_file_list yields is the k-th of the listing, yielded while
\* its page is the current one; the run ends normally only with every page up to
\* the server's count requested (page 1 in any case, which tells the count) and
\* every file yielded; after an answer without "paging" nothing more is
\* requested or yielded and the run has ended in the uncaught KeyError.
C18_PagesInOrder ==
    /\ \A i \in DOMAIN Answered : Answered[i][1] = i
    /\ \A i \in DOMAIN listLog :
          listLog[i][1] = 1 + Len(SelectSeq(SubSeq(listLog, 1, i - 1), LAMBDA e : e[2] # 429))
    /\ pc = "download" =>
          /\ yielded \in DOMAIN listing
          /\ destination_path = Destination(listing[yielded])
          /\ (current_page - 1) * MaxPageFiles < yielded
          /\ yielded <= current_page * MaxPageFiles
    /\ pc = "files_done" =>
          /\ \A i \in DOMAIN Answered : Answered[i][3]
          /\ Len(Answered) = Max(1, NumPages)
          /\ yielded = Len(listing)
    /\ \A i \in DOMAIN listLog :
          (listLog[i][2] # 429 /\ ~listLog[i][3]) => (i = Len(listLog) /\ pc = "files_crash")

\* A run over a listing of two pages, throttled once, has ended with both files
\* yielded.
C18_Witness ==
    /\ pc = "files_done"
    /\ NumPages >= 2
    /\ yielded = Len(listing)
    /\ Len(Answered) = NumPages
    /\ Len(listLog) > Len(Answered)

\* The requests of call c in the order they were made, as <<params, response>>.
RequestsOf(c) ==
    LET evs == SelectSeq(log, LAMBDA e : IsGet(e) /\ e[2] = c)
    IN  [i \in DOMAIN evs |-> <<evs[i][3], evs[i][4]>>]

\* The places in reqs, before the n-th, of the answers get_data did not repeat.
PagesBefore(reqs, n) ==
    {j \in 1..(n - 1) : ~(HasGetData /\ reqs[j][2].status = 429)}

\* C19: in one paginated_get call the requests up to the first page carry no
\* cursor, every later request carries the next_cursor of the page before it as
\* the server gave it (a request repeated after a 429 included), and channel,
\* limit and ts are the same in all requests of the call.
C19_CursorFrame ==
    \A c \in 1..call :
        LET reqs == RequestsOf(c) IN
        \A n \in DOMAIN reqs :
            LET before == PagesBefore(reqs, n) IN
            /\ before = {} => reqs[n][1].cursor = None
            /\ before # {} =>
                  LET last == CHOOSE j \in before : \A k \in before : k <= j
                  IN  /\ reqs[last][2].cur.some
                      /\ reqs[n][1].cursor = reqs[last][2].cur
            /\ reqs[n][1].channel = reqs[1][1].channel
            /\ reqs[n][1].limit = reqs[1][1].limit
            /\ reqs[n][1].ts = reqs[1][1].ts

\* exporterVer2.py has requested a second page with the cursor of the first, was
\* throttled, and repeated the request.
C19_Witness ==
    /\ prog = "exporterVer2"
    /\ \E c \in 1..call :
          LET reqs == RequestsOf(c) IN
          /\ Len(reqs) = 3
          /\ reqs[1][2].status = 200
          /\ reqs[2][2].status = 429
          /\ reqs[1][2].cur.some
          /\ Strip(reqs[1][2].cur.s) # <<>>
          /\ reqs[3][1].cursor = reqs[1][2].cur
          /\ reqs[3][1] = reqs[2][1]

\* C20: the file save_files has counted last holds the complete content of a
\* download response, or its path existed when the run began: an attempt that
\* raised after it had created the file is not made a success by the next
\* attempt finding the path.
C20_CountedIsComplete ==
    (pc \in {"yield", "get_file_list", "files_done"} /\ total >= 1 /\ total = yielded) =>
        \/ fs[destination_path] = "complete"
        \/ fs0[destination_path] # "absent"

====
